---------------------------- MODULE Spec2Model ----------------------------
(* State-machine model of the external scanner of tree-sitter-patchwork     *)
(* (src/tree-sitter/src/scanner.c).  The scanner state, the eight token     *)
(* classifiers, the dispatch in scan and the byte-level serialisation are   *)
(* translated from the C source.  Characters are one-character strings, an  *)
(* input is a sequence of them, cursor positions are 1-based indices into   *)
(* the input (position Len+1 is end of input, where lookahead is 0 in C).   *)
EXTENDS Integers, Sequences, FiniteSets, TLC

VARIABLES
  scanner,   \* the Scanner struct of the live instance
  input,     \* the document the host lexer reads
  pos,       \* cursor of the host lexer at the start of the next scan call
  last,      \* outcome of the last operation (kind, token extent, prior state)
  nStart,    \* interpolation-start tokens emitted since create/reset
  nEnd,      \* interpolation-end tokens emitted since create/reset
  saved,     \* the Scanner state that was serialized
  buffer,    \* bytes written by serialize
  handed,    \* the buffer the host hands to deserialize
  pc         \* position in the serialize/deserialize life cycle

vars == <<scanner, input, pos, last, nStart, nEnd, saved, buffer, handed, pc>>

-----------------------------------------------------------------------------
(* Program constants and types                                              *)

PROMPT_STACK_CAPACITY == 64

PROMPT_START == "PROMPT_START"
PROMPT_END == "PROMPT_END"
PROMPT_TEXT == "PROMPT_TEXT"
PROMPT_ESCAPE == "PROMPT_ESCAPE"
PROMPT_INTERPOLATION_START == "PROMPT_INTERPOLATION_START"
PROMPT_INTERPOLATION_END == "PROMPT_INTERPOLATION_END"
PROMPT_DO == "PROMPT_DO"
STATEMENT_TERMINATOR == "STATEMENT_TERMINATOR"

TokenType ==
  {PROMPT_START, PROMPT_END, PROMPT_TEXT, PROMPT_ESCAPE,
   PROMPT_INTERPOLATION_START, PROMPT_INTERPOLATION_END, PROMPT_DO,
   STATEMENT_TERMINATOR}

\* result_symbol before any classifier has set it
NONE == "NONE"

\* widths of the integer fields of Scanner
UINT8 == 256
UINT16 == 65536

\* characters
EOF == "EOF"
SP == " "
TAB == "\t"
FF == "\f"
CR == "\r"
LF == "\n"
LBRACE == "{"
RBRACE == "}"
DOLLAR == "$"
QUOTE == "'"

\* the alphanumeric characters that occur in the modelled inputs (iswalnum)
Alnum ==
  {"a", "b", "c", "d", "e", "g", "h", "i", "l", "m", "n", "o", "r", "t",
   "u", "w", "x", "0", "1"}

\* The Scanner struct.  prompt_depths holds the live entries
\* prompt_depths[0 .. prompt_depth_count-1] of the C array (C index i is
\* sequence index i+1).  The code never reads an entry at or above
\* prompt_depth_count (push writes before it counts, serialize and
\* current_prompt_depth stay below the count), so entries left behind by a
\* pop or a reset are not part of the state.
create ==
  [prompt_depths |-> <<>>,
   prompt_depth_count |-> 0,
   interpolation_depth |-> 0,
   at_line_start |-> FALSE]

\* a faulty reset: the interpolation counter survives
ResetKeepsInterpolation(sc) ==
  [sc EXCEPT !.prompt_depths = <<>>,
             !.prompt_depth_count = 0,
             !.at_line_start = TRUE]

reset_state(sc) ==
  [sc EXCEPT !.prompt_depths = <<>>,
             !.prompt_depth_count = 0,
             !.interpolation_depth = 0,
             !.at_line_start = TRUE]

\* index of the top entry, or -1 for the NULL pointer
current_prompt_depth(sc) ==
  IF sc.prompt_depth_count = 0 THEN -1 ELSE sc.prompt_depth_count - 1

\* prompt_depths[i] and the assignment prompt_depths[i] = v, i a C index
DepthAt(sc, i) == sc.prompt_depths[i + 1]
SetDepth(sc, i, v) == [sc EXCEPT !.prompt_depths[i + 1] = v]

push_prompt(sc) ==
  LET pushed ==
        IF sc.prompt_depth_count < PROMPT_STACK_CAPACITY
        THEN [sc EXCEPT !.prompt_depths = Append(@, 1),
                        !.prompt_depth_count = @ + 1]
        ELSE sc
  IN [pushed EXCEPT !.at_line_start = TRUE]

pop_prompt(sc) ==
  IF sc.prompt_depth_count > 0
  THEN [sc EXCEPT !.prompt_depths = SubSeq(@, 1, sc.prompt_depth_count - 1),
                  !.prompt_depth_count = @ - 1]
  ELSE sc

is_whitespace(c) == c = SP \/ c = TAB \/ c = CR \/ c = LF \/ c = FF

is_identifier_continue(c) == c \in Alnum \/ c = "_"

-----------------------------------------------------------------------------
(* The host lexer (TSLexer): lookahead, advance, mark_end, result_symbol.   *)
(* A scan context cx carries the scanner and the lexer through one scan     *)
(* call: pos is the cursor, start the token start (moved by a skipping      *)
(* advance), mark the marked token end (0: mark_end not called yet).        *)

lookahead(inp, cx) == IF cx.pos <= Len(inp) THEN inp[cx.pos] ELSE EOF

advance(inp, cx, skip) ==
  LET p == IF cx.pos <= Len(inp) THEN cx.pos + 1 ELSE cx.pos
  IN [cx EXCEPT !.pos = p, !.start = IF skip THEN p ELSE @]

mark_end(cx) == [cx EXCEPT !.mark = cx.pos]

StartScan(sc, p) == [sc |-> sc, pos |-> p, start |-> p, mark |-> 0, sym |-> NONE]

\* where the token ends: the marked end, or the cursor when none was marked
TokenEnd(cx) == IF cx.mark = 0 THEN cx.pos ELSE cx.mark

Fail(cx) == [ok |-> FALSE, cx |-> cx]
Succeed(cx) == [ok |-> TRUE, cx |-> cx]

-----------------------------------------------------------------------------
(* The token classifiers.  Each takes the input and a scan context and      *)
(* returns [ok, cx]: whether it matched, and the context it leaves behind   *)
(* (a classifier that fails after advancing leaves the cursor advanced).    *)

\* a faulty loop: it stops after the first line break
TerminatorOnce(inp, cx, saw_newline) ==
  IF lookahead(inp, cx) = CR
  THEN LET c1 == advance(inp, cx, FALSE)
       IN IF lookahead(inp, c1) = LF
          THEN [cx |-> advance(inp, c1, FALSE), saw_newline |-> TRUE]
          ELSE [cx |-> c1, saw_newline |-> TRUE]
  ELSE IF lookahead(inp, cx) = LF
  THEN [cx |-> advance(inp, cx, FALSE), saw_newline |-> TRUE]
  ELSE [cx |-> cx, saw_newline |-> saw_newline]

RECURSIVE TerminatorLoop(_, _, _)
TerminatorLoop(inp, cx, saw_newline) ==
  IF lookahead(inp, cx) = CR
  THEN LET c1 == advance(inp, cx, FALSE)
       IN IF lookahead(inp, c1) = LF
          THEN TerminatorLoop(inp, advance(inp, c1, FALSE), TRUE)
          ELSE TerminatorLoop(inp, c1, TRUE)
  ELSE IF lookahead(inp, cx) = LF
  THEN TerminatorLoop(inp, advance(inp, cx, FALSE), TRUE)
  ELSE [cx |-> cx, saw_newline |-> saw_newline]

scan_statement_terminator(inp, cx) ==
  LET r == TerminatorLoop(inp, cx, FALSE)
  IN IF ~r.saw_newline
     THEN Fail(r.cx)
     ELSE Succeed([r.cx EXCEPT !.sym = STATEMENT_TERMINATOR])

RECURSIVE SkipBlanks(_, _)
SkipBlanks(inp, cx) ==
  IF lookahead(inp, cx) = SP \/ lookahead(inp, cx) = TAB \/ lookahead(inp, cx) = FF
  THEN SkipBlanks(inp, advance(inp, cx, TRUE))
  ELSE cx

\* a faulty region start: it does not require an empty stack
ScanPromptStartNested(inp, cx) ==
  LET c1 == SkipBlanks(inp, cx)
  IN IF lookahead(inp, c1) # LBRACE
     THEN Fail(c1)
     ELSE LET c2 == [c1 EXCEPT !.sc = push_prompt(c1.sc)]
              c3 == advance(inp, c2, FALSE)
          IN Succeed([c3 EXCEPT !.sym = PROMPT_START])

scan_prompt_start(inp, cx) ==
  IF cx.sc.prompt_depth_count > 0
  THEN Fail(cx)
  ELSE LET c1 == SkipBlanks(inp, cx)
       IN IF lookahead(inp, c1) # LBRACE
          THEN Fail(c1)
          ELSE LET c2 == [c1 EXCEPT !.sc = push_prompt(c1.sc)]
                   c3 == advance(inp, c2, FALSE)
               IN Succeed([c3 EXCEPT !.sym = PROMPT_START])

\* a faulty region end: the brace-nesting counter is not looked at
ScanPromptEndAnyDepth(inp, cx) ==
  IF current_prompt_depth(cx.sc) = -1 \/ lookahead(inp, cx) # RBRACE
  THEN Fail(cx)
  ELSE LET c1 == [cx EXCEPT !.sc = pop_prompt(cx.sc)]
           c2 == advance(inp, c1, FALSE)
       IN Succeed([c2 EXCEPT !.sym = PROMPT_END])

scan_prompt_end(inp, cx) ==
  LET depth == current_prompt_depth(cx.sc)
  IN IF depth = -1 \/ DepthAt(cx.sc, depth) # 1 \/ lookahead(inp, cx) # RBRACE
     THEN Fail(cx)
     ELSE LET c1 == [cx EXCEPT !.sc = pop_prompt(cx.sc)]
              c2 == advance(inp, c1, FALSE)
          IN Succeed([c2 EXCEPT !.sym = PROMPT_END])

scan_prompt_escape(inp, cx) ==
  IF cx.sc.prompt_depth_count = 0 \/ lookahead(inp, cx) # DOLLAR
  THEN Fail(cx)
  ELSE LET c1 == advance(inp, cx, FALSE)
       IN IF lookahead(inp, c1) # QUOTE
          THEN Fail(c1)
          ELSE LET c2 == advance(inp, c1, FALSE)
               IN IF lookahead(inp, c2) = EOF
                  THEN Fail(c2)
                  ELSE LET c3 == advance(inp, c2, FALSE)
                       IN IF lookahead(inp, c3) # QUOTE
                          THEN Fail(c3)
                          ELSE LET c4 == mark_end(advance(inp, c3, FALSE))
                               IN Succeed([c4 EXCEPT !.sym = PROMPT_ESCAPE,
                                                     !.sc.at_line_start = FALSE])

\* a faulty interpolation start: it counts the span before it has seen
\* the {
InterpolationStartEager(inp, cx) ==
  IF cx.sc.prompt_depth_count = 0 \/ lookahead(inp, cx) # DOLLAR
  THEN Fail(cx)
  ELSE LET c1 == [advance(inp, cx, FALSE) EXCEPT
                    !.sc.interpolation_depth = (@ + 1) % UINT8]
       IN IF lookahead(inp, c1) # LBRACE
          THEN Fail(c1)
          ELSE LET c2 == mark_end(advance(inp, c1, FALSE))
               IN Succeed([c2 EXCEPT !.sym = PROMPT_INTERPOLATION_START,
                                     !.sc.at_line_start = FALSE])

scan_prompt_interpolation_start(inp, cx) ==
  IF cx.sc.prompt_depth_count = 0 \/ lookahead(inp, cx) # DOLLAR
  THEN Fail(cx)
  ELSE LET c1 == advance(inp, cx, FALSE)
       IN IF lookahead(inp, c1) # LBRACE
          THEN Fail(c1)
          ELSE LET c2 == mark_end(advance(inp, c1, FALSE))
               IN Succeed([c2 EXCEPT
                    !.sc.interpolation_depth = (@ + 1) % UINT8,
                    !.sym = PROMPT_INTERPOLATION_START,
                    !.sc.at_line_start = FALSE])

scan_prompt_interpolation_end(inp, cx) ==
  IF cx.sc.interpolation_depth = 0 \/ lookahead(inp, cx) # RBRACE
  THEN Fail(cx)
  ELSE LET c1 == [cx EXCEPT !.sc.interpolation_depth = @ - 1]
           c2 == mark_end(advance(inp, c1, FALSE))
       IN Succeed([c2 EXCEPT !.sym = PROMPT_INTERPOLATION_END,
                             !.sc.at_line_start = FALSE])

\* a faulty indentation loop: it reports indentation where there is none
RECURSIVE IndentationAlwaysSeen(_, _, _)
IndentationAlwaysSeen(inp, cx, saw) ==
  IF lookahead(inp, cx) = SP \/ lookahead(inp, cx) = TAB
  THEN IndentationAlwaysSeen(inp, mark_end(advance(inp, cx, FALSE)), TRUE)
  ELSE [cx |-> cx, saw_indentation |-> TRUE]

\* a faulty indentation loop: the blanks are consumed without marking the
\* token end
RECURSIVE IndentationUnmarked(_, _, _)
IndentationUnmarked(inp, cx, saw) ==
  IF lookahead(inp, cx) = SP \/ lookahead(inp, cx) = TAB
  THEN IndentationUnmarked(inp, advance(inp, cx, FALSE), TRUE)
  ELSE [cx |-> cx, saw_indentation |-> saw]

\* the two whitespace loops of scan_prompt_do: advance and mark each blank
RECURSIVE Indentation(_, _, _)
Indentation(inp, cx, saw) ==
  IF lookahead(inp, cx) = SP \/ lookahead(inp, cx) = TAB
  THEN Indentation(inp, mark_end(advance(inp, cx, FALSE)), TRUE)
  ELSE [cx |-> cx, saw_indentation |-> saw]

RECURSIVE RestOfLine(_, _)
RestOfLine(inp, cx) ==
  IF lookahead(inp, cx) # EOF /\ lookahead(inp, cx) # LF /\ lookahead(inp, cx) # CR
  THEN RestOfLine(inp, mark_end(advance(inp, cx, FALSE)))
  ELSE cx

\* the label emit_line_as_text of scan_prompt_do
emit_line_as_text(inp, cx) ==
  LET c1 == RestOfLine(inp, cx)
      c2 == IF lookahead(inp, c1) = CR
            THEN LET a == mark_end(advance(inp, c1, FALSE))
                     b == IF lookahead(inp, a) = LF
                          THEN mark_end(advance(inp, a, FALSE))
                          ELSE a
                 IN [b EXCEPT !.sc.at_line_start = TRUE]
            ELSE IF lookahead(inp, c1) = LF
            THEN [mark_end(advance(inp, c1, FALSE)) EXCEPT !.sc.at_line_start = TRUE]
            ELSE [c1 EXCEPT !.sc.at_line_start = FALSE]
  IN Succeed([c2 EXCEPT !.sym = PROMPT_TEXT])

scan_prompt_do(inp, cx) ==
  IF cx.sc.prompt_depth_count = 0 \/ ~cx.sc.at_line_start
  THEN Fail(cx)
  ELSE LET ind == Indentation(inp, mark_end(cx), FALSE)
           c1 == ind.cx
       IN IF lookahead(inp, c1) # "d"
          THEN IF ind.saw_indentation
               THEN Succeed([c1 EXCEPT !.sym = PROMPT_TEXT,
                                       !.sc.at_line_start = TRUE])
               ELSE Fail(c1)
          ELSE LET c2 == mark_end(advance(inp, c1, FALSE))
               IN IF lookahead(inp, c2) # "o"
                  THEN emit_line_as_text(inp, c2)
                  ELSE LET c3 == mark_end(advance(inp, c2, FALSE))
                       IN IF is_identifier_continue(lookahead(inp, c3))
                          THEN emit_line_as_text(inp, c3)
                          ELSE LET c4 == Indentation(inp, c3, FALSE).cx
                               IN IF lookahead(inp, c4) = LBRACE
                                  THEN Succeed([c4 EXCEPT
                                         !.sym = PROMPT_DO,
                                         !.sc.at_line_start = FALSE])
                                  ELSE emit_line_as_text(inp, c4)

\* the for (;;) loop of scan_prompt_text; depth is the index of the top entry
RECURSIVE TextLoop(_, _, _, _)
TextLoop(inp, cx, depth, has_content) ==
  LET c == lookahead(inp, cx)
      consumed == mark_end(advance(inp, cx, FALSE))
  IN IF c = EOF
     THEN [cx |-> cx, has_content |-> has_content]
     ELSE IF c = LF \/ c = CR
     THEN LET a == advance(inp, cx, FALSE)
              b == IF c = CR /\ lookahead(inp, a) = LF
                   THEN advance(inp, a, FALSE)
                   ELSE a
          IN [cx |-> [mark_end(b) EXCEPT !.sc.at_line_start = TRUE],
              has_content |-> TRUE]
     ELSE IF c = SP \/ c = TAB
     THEN TextLoop(inp, consumed, depth, TRUE)
     ELSE IF c = DOLLAR
     THEN [cx |-> cx, has_content |-> has_content]
     ELSE IF c = RBRACE
     THEN IF DepthAt(cx.sc, depth) = 1
          THEN [cx |-> cx, has_content |-> has_content]
          ELSE TextLoop(inp,
                 [consumed EXCEPT
                    !.sc = SetDepth(@, depth, (DepthAt(@, depth) + UINT16 - 1) % UINT16),
                    !.sc.at_line_start = FALSE],
                 depth, TRUE)
     ELSE IF c = LBRACE
     THEN TextLoop(inp,
            [consumed EXCEPT
               !.sc = SetDepth(@, depth, (DepthAt(@, depth) + 1) % UINT16),
               !.sc.at_line_start = FALSE],
            depth, TRUE)
     ELSE TextLoop(inp, [consumed EXCEPT !.sc.at_line_start = FALSE],
                   depth, TRUE)

scan_prompt_text(inp, cx) ==
  LET depth == current_prompt_depth(cx.sc)
  IN IF depth = -1
     THEN Fail(cx)
     ELSE LET r == TextLoop(inp, cx, depth, FALSE)
          IN IF r.has_content
             THEN Succeed([r.cx EXCEPT !.sym = PROMPT_TEXT])
             ELSE Fail(r.cx)

\* a faulty order: region end tried before interpolation end
PriorityEndFirst ==
  <<PROMPT_START, PROMPT_END, PROMPT_INTERPOLATION_END,
    PROMPT_INTERPOLATION_START, PROMPT_ESCAPE, STATEMENT_TERMINATOR,
    PROMPT_DO, PROMPT_TEXT>>

\* the classifiers in the order scan tries them
Priority ==
  <<PROMPT_START, PROMPT_INTERPOLATION_END, PROMPT_END,
    PROMPT_INTERPOLATION_START, PROMPT_ESCAPE, STATEMENT_TERMINATOR,
    PROMPT_DO, PROMPT_TEXT>>

Classify(kind, inp, cx) ==
  CASE kind = PROMPT_START -> scan_prompt_start(inp, cx)
    [] kind = PROMPT_INTERPOLATION_END -> scan_prompt_interpolation_end(inp, cx)
    [] kind = PROMPT_END -> scan_prompt_end(inp, cx)
    [] kind = PROMPT_INTERPOLATION_START -> scan_prompt_interpolation_start(inp, cx)
    [] kind = PROMPT_ESCAPE -> scan_prompt_escape(inp, cx)
    [] kind = STATEMENT_TERMINATOR -> scan_statement_terminator(inp, cx)
    [] kind = PROMPT_DO -> scan_prompt_do(inp, cx)
    [] kind = PROMPT_TEXT -> scan_prompt_text(inp, cx)

\* the chain of if statements of scan from the k-th on: a classifier runs
\* when valid_symbols permits its kind, and the next one starts where a
\* failed one left the lexer
RECURSIVE Dispatch(_, _, _, _, _)
Dispatch(order, k, inp, cx, valid_symbols) ==
  IF k > Len(order)
  THEN Fail(cx)
  ELSE IF order[k] \in valid_symbols
  THEN LET r == Classify(order[k], inp, cx)
       IN IF r.ok THEN r ELSE Dispatch(order, k + 1, inp, r.cx, valid_symbols)
  ELSE Dispatch(order, k + 1, inp, cx, valid_symbols)

tree_sitter_patchwork_external_scanner_scan(inp, cx, valid_symbols) ==
  Dispatch(Priority, 1, inp, cx, valid_symbols)

\* one scan call at cursor p: the token (kind and extent) and the new state
Scan(sc, inp, p, valid_symbols) ==
  LET r == tree_sitter_patchwork_external_scanner_scan(
             inp, StartScan(sc, p), valid_symbols)
  IN [ok |-> r.ok,
      sym |-> IF r.ok THEN r.cx.sym ELSE NONE,
      sc |-> r.cx.sc,
      start |-> r.cx.start,
      end |-> TokenEnd(r.cx),
      cursor |-> r.cx.pos]

-----------------------------------------------------------------------------
(* Serialisation.  A buffer is [null, bytes, length]: bytes are the bytes   *)
(* the caller owns (values 0..255, C index i is sequence index i+1) and     *)
(* length is the length argument.  Reading at an index that is not in bytes *)
(* is a read past the buffer; it yields the arbitrary byte garbage.         *)

RECURSIVE SerializeEntries(_, _)
SerializeEntries(sc, i) ==
  IF i < sc.prompt_depth_count
  THEN LET depth == DepthAt(sc, i)
       IN <<depth % 256, (depth \div 256) % 256>> \o SerializeEntries(sc, i + 1)
  ELSE <<>>

\* a faulty serialize: the line-start flag is not saved
SerializeFlagless(sc, buffer_null) ==
  IF buffer_null
  THEN <<>>
  ELSE <<sc.prompt_depth_count % UINT8, sc.interpolation_depth % UINT8, 0>>
         \o SerializeEntries(sc, 0)

\* the bytes written (the returned size is their number)
tree_sitter_patchwork_external_scanner_serialize(sc, buffer_null) ==
  IF buffer_null
  THEN <<>>
  ELSE <<sc.prompt_depth_count % UINT8,
         sc.interpolation_depth % UINT8,
         IF sc.at_line_start THEN 1 ELSE 0>> \o SerializeEntries(sc, 0)

ReadByte(buf, i, garbage) ==
  IF i < Len(buf.bytes) THEN buf.bytes[i + 1] ELSE garbage

\* faulty variants of the clamp test: one gives up an entry early, the other
\* accepts an entry whose second byte is missing
EntryMissingEarly(cursor, length) == cursor + 2 >= length
EntryMissingLate(cursor, length) == cursor >= length

\* the clamp test of the entry loop: fewer than two bytes are left
EntryMissing(cursor, length) == cursor + 1 >= length

\* the entry loop of deserialize; d carries the scanner, the cursor, the
\* number of bytes known to be read (highest index + 1) and whether an
\* entry was written at an index outside prompt_depths
RECURSIVE DeserializeEntries(_, _, _, _)
DeserializeEntries(buf, d, i, garbage) ==
  IF i < d.sc.prompt_depth_count
  THEN IF EntryMissing(d.cursor, buf.length)
       THEN [d EXCEPT !.sc.prompt_depth_count = i]
       ELSE LET lo == ReadByte(buf, d.cursor, garbage)
                hi == ReadByte(buf, d.cursor + 1, garbage)
                v == (lo + 256 * hi) % UINT16
            IN DeserializeEntries(buf,
                 [d EXCEPT !.cursor = @ + 2,
                           !.read = d.cursor + 2,
                           !.sc.prompt_depths =
                              IF i < PROMPT_STACK_CAPACITY THEN Append(@, v) ELSE @,
                           !.oob = @ \/ i >= PROMPT_STACK_CAPACITY,
                           !.alias = IF i = PROMPT_STACK_CAPACITY THEN lo ELSE @],
                 i + 1, garbage)
  ELSE d

\* returns the scanner as the loop leaves it, the bytes read, and oob: an
\* entry was stored at index >= PROMPT_STACK_CAPACITY (undefined behaviour;
\* alias is the low byte stored at index PROMPT_STACK_CAPACITY, where the
\* struct keeps prompt_depth_count)
tree_sitter_patchwork_external_scanner_deserialize(sc, buf, garbage) ==
  LET s0 == reset_state(sc)
      d0 == [sc |-> s0, cursor |-> 0, read |-> 0, oob |-> FALSE, alias |-> 0]
  IN IF buf.null \/ buf.length = 0
     THEN d0
     ELSE LET s1 == [s0 EXCEPT !.prompt_depth_count = ReadByte(buf, 0, garbage) % UINT8]
              d1 == [d0 EXCEPT !.sc = s1, !.cursor = 1, !.read = 1]
              d2 == IF d1.cursor < buf.length
                    THEN [d1 EXCEPT
                            !.sc.interpolation_depth = ReadByte(buf, 1, garbage) % UINT8,
                            !.cursor = 2, !.read = 2]
                    ELSE d1
              d3 == IF d2.cursor < buf.length
                    THEN [d2 EXCEPT
                            !.sc.at_line_start = (ReadByte(buf, d2.cursor, garbage) # 0),
                            !.cursor = d2.cursor + 1, !.read = d2.cursor + 1]
                    ELSE d2
          IN DeserializeEntries(buf, d3, 0, garbage)

-----------------------------------------------------------------------------
(* Scanning a document.  The host creates the scanner, may reset it, and    *)
(* calls scan with any set of permitted kinds; between scans its own lexer  *)
(* may consume characters as grammar tokens.                                *)

\* bound: length of the enumerated inputs
MaxLen == 2

Alphabet == {LBRACE, RBRACE, DOLLAR, "d", SP, LF}

Words(n) == UNION {[1..k -> Alphabet] : k \in 0..n}

\* the inputs of the specification's testable properties, and line-ending
\* and indentation cases outside the enumerated alphabet
Samples ==
  {<<"{", "h", "e", "l", "l", "o", " ", "w", "o", "r", "l", "d", "}">>,
   <<"{", "a", "{", "b", "}", "c", "}">>,
   <<"{", "$", "{", "x", "}", "}">>,
   <<"{", "$", "'", "{", "'", "}">>,
   <<"{", "d", "o", " ", "{", "x", "}", "}">>,
   <<"{", "d", "o", "c", "u", "m", "e", "n", "t", " ", "{">>,
   <<"{", "d", "o", "_", "t", "h", "i", "n", "g", "{">>,
   <<"{", "\t", "d", "o", "\t", "{", "}", "}">>,
   <<"{", "d", "x", "}">>,
   <<"{", "$", "d", "o", " ", "{">>,
   <<"{", " ", "x", "\r", "\n", "d", "o", "\r", "x">>,
   <<"\r", "\n", "\r", "\n", "x">>,
   <<"\n", "\r", "{", "}", "\n">>,
   <<"\f", " ", "{", "\r", "}">>,
   <<"x", " ", "}", "$", "{">>,
   <<"{", "{", "\n", "}", "}">>}

\* every document that opens a region and goes on with up to MaxLen
\* characters of the alphabet, and the samples
Inputs == {<<LBRACE>> \o w : w \in Words(MaxLen)} \cup Samples

Masks == SUBSET TokenType

NoBuffer == [null |-> TRUE, bytes |-> <<>>, length |-> 0, kind |-> "none"]

Init ==
  /\ scanner = create
  /\ input \in Inputs
  /\ pos = 1
  /\ last = [op |-> "create", sym |-> NONE, start |-> 1, end |-> 1,
             pre |-> create, prepos |-> 1]
  /\ nStart = 0
  /\ nEnd = 0
  /\ saved = create
  /\ buffer = <<>>
  /\ handed = NoBuffer
  /\ pc = "scan"

\* tree_sitter_patchwork_external_scanner_reset, as the host starts over
Reset ==
  /\ pc = "scan"
  /\ scanner' = reset_state(scanner)
  /\ pos' = 1
  /\ last' = [op |-> "reset", sym |-> NONE, start |-> 1, end |-> 1,
              pre |-> scanner, prepos |-> 1]
  /\ nStart' = 0
  /\ nEnd' = 0
  /\ UNCHANGED <<input, saved, buffer, handed, pc>>

\* what scan can return at cursor p, over every set of permitted kinds
ScanOutcomes(sc, inp, p) == {Scan(sc, inp, p, valid_symbols) : valid_symbols \in Masks}

\* the host takes the outcome r of a scan call: on a token it moves its
\* cursor to the token's end, on a decline it rewinds
TakeOutcome(r) ==
  /\ pc = "scan"
  /\ scanner' = r.sc
  /\ pos' = IF r.ok THEN r.end ELSE pos
  /\ last' = [op |-> "scan", sym |-> r.sym, start |-> r.start,
              end |-> r.end, pre |-> scanner, prepos |-> pos]
  /\ nStart' = IF r.sym = PROMPT_INTERPOLATION_START THEN nStart + 1 ELSE nStart
  /\ nEnd' = IF r.sym = PROMPT_INTERPOLATION_END THEN nEnd + 1 ELSE nEnd
  /\ UNCHANGED <<input, saved, buffer, handed, pc>>

\* one call of scan, with any set of permitted kinds
ScanToken == \E r \in ScanOutcomes(scanner, input, pos) : TakeOutcome(r)

\* the host's own lexer consumes one character as part of a grammar token
HostToken ==
  /\ pc = "scan"
  /\ pos <= Len(input)
  /\ pos' = pos + 1
  /\ last' = [op |-> "host", sym |-> NONE, start |-> pos, end |-> pos + 1,
              pre |-> scanner, prepos |-> pos]
  /\ UNCHANGED <<scanner, input, nStart, nEnd, saved, buffer, handed, pc>>

Next == ScanToken \/ HostToken \/ Reset

Spec == Init /\ [][Next]_vars

-----------------------------------------------------------------------------
(* The snapshot life cycle: a scanner state is serialized, the host hands   *)
(* a buffer back (the snapshot, a prefix of it, nothing, or bytes that are  *)
(* not a snapshot of this state), and deserialize loads it into a scanner   *)
(* that has meanwhile moved on.                                             *)

\* bound: the scanner states serialized are SerState(n, v), v \in 0..MaxVariant
MaxVariant == 1
\* bound: bytes a foreign buffer may have beyond the longest snapshot
MaxExtra == 2

DepthSamples == <<1, 255, 256, 65535, 258>>
InterpSamples == <<0, 255, 1, 128>>

\* a scanner state with n open regions; v selects the counters
SerState(n, v) ==
  [prompt_depths |->
     [i \in 1..n |-> DepthSamples[((i + v) % Len(DepthSamples)) + 1]],
   prompt_depth_count |-> n,
   interpolation_depth |-> InterpSamples[(v % Len(InterpSamples)) + 1],
   at_line_start |-> (v % 2 = 0)]

SerStates == {SerState(n, v) : n \in 0..PROMPT_STACK_CAPACITY, v \in 0..MaxVariant}

\* a full scanner, as the payload may be when deserialize is called
Clobbered ==
  [prompt_depths |-> [i \in 1..PROMPT_STACK_CAPACITY |-> 7],
   prompt_depth_count |-> PROMPT_STACK_CAPACITY,
   interpolation_depth |-> 9,
   at_line_start |-> FALSE]

MaxSnapshot == 3 + 2 * PROMPT_STACK_CAPACITY

ForeignLengths == (1..5) \cup ((MaxSnapshot - 1)..(MaxSnapshot + MaxExtra))
FillBytes == {1, 255}
Garbage == {0, 255}

InitSer ==
  /\ scanner \in SerStates
  /\ input = <<>>
  /\ pos = 1
  /\ last = [op |-> "create"]
  /\ nStart = 0
  /\ nEnd = 0
  /\ saved = create
  /\ buffer = <<>>
  /\ handed = NoBuffer
  /\ pc = "live"

Serialize ==
  /\ pc = "live"
  /\ buffer' = tree_sitter_patchwork_external_scanner_serialize(scanner, FALSE)
  /\ saved' = scanner
  /\ last' = [op |-> "serialize"]
  /\ pc' = "saved"
  /\ UNCHANGED <<scanner, input, pos, nStart, nEnd, handed>>

\* the host hands back the first length bytes of the snapshot
HandPrefix ==
  /\ pc = "saved"
  /\ \E length \in 0..Len(buffer) :
       handed' = [null |-> FALSE, bytes |-> SubSeq(buffer, 1, length),
                  length |-> length, kind |-> "prefix"]
  /\ pc' = "handed"
  /\ UNCHANGED <<scanner, input, pos, last, nStart, nEnd, saved, buffer>>

\* the host has no buffer for this position
HandAbsent ==
  /\ pc = "saved"
  /\ handed' = [null |-> TRUE, bytes |-> <<>>, length |-> 0, kind |-> "absent"]
  /\ pc' = "handed"
  /\ UNCHANGED <<scanner, input, pos, last, nStart, nEnd, saved, buffer>>

\* the host hands a freshly reset scanner bytes that are no snapshot of
\* this session (stale or corrupt): any declared count, any length up to
\* MaxSnapshot + MaxExtra
HandForeign ==
  /\ pc = "live"
  /\ scanner = reset_state(create)
  /\ \E count \in 0..(UINT8 - 1), length \in ForeignLengths, fill \in FillBytes :
       handed' = [null |-> FALSE,
                  bytes |-> [i \in 1..length |-> IF i = 1 THEN count ELSE fill],
                  length |-> length, kind |-> "foreign"]
  /\ pc' = "handed"
  /\ UNCHANGED <<scanner, input, pos, last, nStart, nEnd, saved, buffer>>

\* what a build may leave in the scanner after deserialize stored an entry
\* outside prompt_depths: the declared count kept, or the count overwritten
\* by the entry stored over it
AfterOverflow(d) ==
  {d.sc, [d.sc EXCEPT !.prompt_depth_count = d.alias]}

Deserialize ==
  /\ pc = "handed"
  /\ \E payload \in {scanner, Clobbered}, garbage \in Garbage :
       \E d \in {tree_sitter_patchwork_external_scanner_deserialize(
                   payload, handed, garbage)} :
          /\ scanner' \in (IF d.oob THEN AfterOverflow(d) ELSE {d.sc})
          /\ last' = [op |-> "deserialize", pre |-> payload,
                      read |-> d.read, oob |-> d.oob]
  /\ pc' = "restored"
  /\ UNCHANGED <<input, pos, nStart, nEnd, saved, buffer, handed>>

NextSer == Serialize \/ HandPrefix \/ HandAbsent \/ HandForeign \/ Deserialize

SpecSer == InitSer /\ [][NextSer]_vars

-----------------------------------------------------------------------------
(* Deep interpolation nesting: a region whose text opens MaxSpans           *)
(* interpolation spans, one inside the other, and then closes them.  The    *)
(* host permits what its grammar permits inside a region and inside an      *)
(* expression.                                                              *)

\* bound: the number of nested interpolation spans of the document
MaxSpans == 256

Repeat(w, k) == [i \in 1..(k * Len(w)) |-> w[((i - 1) % Len(w)) + 1]]

NestInput ==
  <<LBRACE>> \o Repeat(<<DOLLAR, LBRACE>>, MaxSpans) \o Repeat(<<RBRACE>>, MaxSpans + 1)

NestMasks ==
  {TokenType \ {PROMPT_START, STATEMENT_TERMINATOR},
   {PROMPT_INTERPOLATION_START, PROMPT_INTERPOLATION_END, PROMPT_START}}

InitNest ==
  /\ scanner = create
  /\ input = NestInput
  /\ pos = 1
  /\ last = [op |-> "create", sym |-> NONE, start |-> 1, end |-> 1,
             pre |-> create, prepos |-> 1]
  /\ nStart = 0
  /\ nEnd = 0
  /\ saved = create
  /\ buffer = <<>>
  /\ handed = NoBuffer
  /\ pc = "scan"

ScanNested ==
  \E r \in {Scan(scanner, input, pos, valid_symbols) : valid_symbols \in NestMasks} :
     TakeOutcome(r)

NextNest == ScanNested

SpecNest == InitNest /\ [][NextNest]_vars

-----------------------------------------------------------------------------
(* Deep brace nesting: a region whose text opens BraceLines * BracesPerLine *)
(* braces and closes none, BracesPerLine of them on each line.  The         *)
(* region-text classifier returns at every line break.  The variable input  *)
(* holds the document in run-length form (its first character, one line,    *)
(* and how often the line is repeated); the lexer reads its characters.     *)

\* bounds: the lines of the document and the braces on each line
BraceLines == 3855
BracesPerLine == 17

BraceDocument ==
  [head |-> <<LBRACE>>,
   line |-> Repeat(<<LBRACE>>, BracesPerLine) \o <<LF>>,
   times |-> BraceLines]

\* the characters of the document
BraceInput == BraceDocument.head \o Repeat(BraceDocument.line, BraceDocument.times)

BraceMasks ==
  {{PROMPT_START, PROMPT_END, PROMPT_TEXT},
   {PROMPT_START, PROMPT_END, PROMPT_DO, PROMPT_TEXT}}

InitBrace ==
  /\ scanner = create
  /\ input = BraceDocument
  /\ pos = 1
  /\ last = [op |-> "create", sym |-> NONE, start |-> 1, end |-> 1,
             pre |-> create, prepos |-> 1]
  /\ nStart = 0
  /\ nEnd = 0
  /\ saved = create
  /\ buffer = <<>>
  /\ handed = NoBuffer
  /\ pc = "scan"

ScanBraces ==
  \E r \in {Scan(scanner, BraceInput, pos, valid_symbols) :
              valid_symbols \in BraceMasks} :
     TakeOutcome(r)

NextBrace == ScanBraces

SpecBrace == InitBrace /\ [][NextBrace]_vars

-----------------------------------------------------------------------------
(* Properties                                                               *)

CharAt(inp, p) == IF p >= 1 /\ p <= Len(inp) THEN inp[p] ELSE EOF

\* the live parts of two scanner states agree
SameState(a, b) ==
  /\ a.prompt_depth_count = b.prompt_depth_count
  /\ \A i \in 0..(a.prompt_depth_count - 1) : DepthAt(a, i) = DepthAt(b, i)
  /\ a.interpolation_depth = b.interpolation_depth
  /\ a.at_line_start = b.at_line_start

Min(a, b) == IF a <= b THEN a ELSE b

\* C1: round trip.  For every scanner state s with stack length 0..64,
\* 16-bit counters >= 1, any interpolation depth and either line-start
\* flag, serialize writes exactly 3 + 2*N bytes, and deserialize of those
\* bytes (into a scanner in any state) yields a state equal to s in stack
\* length, every live entry in order, interpolation depth and line-start
\* flag.
C1_RoundTrip ==
  /\ pc = "saved" => Len(buffer) = 3 + 2 * saved.prompt_depth_count
  /\ (pc = "restored" /\ handed.kind = "prefix" /\ handed.length = Len(buffer))
       => /\ SameState(scanner, saved)
          /\ ~last.oob
          /\ Len(buffer) = 3 + 2 * saved.prompt_depth_count

\* a full stack with 16-bit counters came back into a scanner that had
\* moved on
C1_Witness ==
  /\ pc = "restored"
  /\ handed.kind = "prefix"
  /\ handed.length = Len(buffer)
  /\ saved.prompt_depth_count = PROMPT_STACK_CAPACITY
  /\ saved.interpolation_depth = 255
  /\ \E i \in 0..(PROMPT_STACK_CAPACITY - 1) : DepthAt(saved, i) = 65535
  /\ last.pre = Clobbered
  /\ scanner = saved

\* the text at p is the four characters $ ' c ' with c any character
EscapeAt(inp, p) ==
  /\ CharAt(inp, p) = DOLLAR
  /\ CharAt(inp, p + 1) = QUOTE
  /\ CharAt(inp, p + 2) # EOF
  /\ CharAt(inp, p + 3) = QUOTE

\* C2: escape recognition.  In any state with an open region, with the
\* cursor at $ ' c ' and the escape kind permitted (alone or with any other
\* kinds), scan emits one escape token spanning those four characters and
\* leaves the stack length, every brace-nesting counter and the
\* interpolation counter unchanged.
C2_EscapeRecognised ==
  (pc = "scan" /\ scanner.prompt_depth_count > 0 /\ EscapeAt(input, pos))
    => \A valid_symbols \in Masks :
         PROMPT_ESCAPE \in valid_symbols
           => LET r == Scan(scanner, input, pos, valid_symbols)
              IN /\ r.ok
                 /\ r.sym = PROMPT_ESCAPE
                 /\ r.start = pos
                 /\ r.end = pos + 4
                 /\ r.sc.prompt_depth_count = scanner.prompt_depth_count
                 /\ r.sc.prompt_depths = scanner.prompt_depths
                 /\ r.sc.interpolation_depth = scanner.interpolation_depth

\* the position after the spaces and tabs that start at p
RECURSIVE SkipIndent(_, _)
SkipIndent(inp, p) ==
  IF CharAt(inp, p) = SP \/ CharAt(inp, p) = TAB THEN SkipIndent(inp, p + 1) ELSE p

\* the text at p is optional indentation, d, o, a character that cannot
\* continue an identifier, optional spaces and tabs, and then {
DoKeywordAt(inp, p) ==
  LET d == SkipIndent(inp, p)
  IN /\ CharAt(inp, d) = "d"
     /\ CharAt(inp, d + 1) = "o"
     /\ ~(CharAt(inp, d + 2) \in Alnum \/ CharAt(inp, d + 2) = "_")
     /\ CharAt(inp, SkipIndent(inp, d + 2)) = LBRACE

\* C3: nested block opening.  After scan emits a nested-block-keyword
\* token for "do {" at a line start inside an open region, the cursor is at
\* the { and the next scan call, region start permitted, emits a
\* region-start token and pushes a new region with counter 1, so the stack
\* length grows by one.
C3_NestedBlockOpens ==
  (pc = "scan" /\ last.op = "scan" /\ last.sym = PROMPT_DO
     /\ last.pre.prompt_depth_count > 0 /\ last.pre.at_line_start
     /\ DoKeywordAt(input, last.prepos))
    => /\ CharAt(input, pos) = LBRACE
       /\ \A valid_symbols \in Masks :
            PROMPT_START \in valid_symbols
              => LET r == Scan(scanner, input, pos, valid_symbols)
                 IN /\ r.sym = PROMPT_START
                    /\ r.sc.prompt_depth_count = scanner.prompt_depth_count + 1
                    /\ DepthAt(r.sc, r.sc.prompt_depth_count - 1) = 1

\* the kinds the grammar permits while a region is being read
RegionKinds ==
  {PROMPT_START, PROMPT_END, PROMPT_TEXT, PROMPT_ESCAPE,
   PROMPT_INTERPOLATION_START, PROMPT_DO}

\* the tokens of repeated scan calls with the same permitted kinds, from
\* cursor p until a decline (at most fuel calls), and the final scanner
RECURSIVE RunTokens(_, _, _, _, _)
RunTokens(sc, inp, p, valid_symbols, fuel) ==
  LET r == Scan(sc, inp, p, valid_symbols)
  IN IF fuel = 0 \/ ~r.ok
     THEN [tokens |-> <<>>, sc |-> sc]
     ELSE LET rest == RunTokens(r.sc, inp, r.end, valid_symbols, fuel - 1)
          IN [tokens |-> <<[sym |-> r.sym, start |-> r.start, end |-> r.end]>>
                           \o rest.tokens,
              sc |-> rest.sc]

\* braces opened minus braces closed in inp[2..i]
Level(inp, i) ==
  Cardinality({j \in 2..i : inp[j] = LBRACE}) - Cardinality({j \in 2..i : inp[j] = RBRACE})

\* inp is { body } with body made of letters, spaces and balanced braces
BraceRegion(inp) ==
  /\ Len(inp) >= 2
  /\ inp[1] = LBRACE
  /\ inp[Len(inp)] = RBRACE
  /\ \A i \in 2..(Len(inp) - 1) :
       /\ inp[i] \in Alnum \cup {SP, LBRACE, RBRACE}
       /\ Level(inp, i) >= 0
  /\ Level(inp, Len(inp) - 1) = 0

\* C4: brace matching in region text.  For every input { body } scanned
\* from the reset state with all in-region kinds permitted, body any string
\* of letters, spaces and balanced braces, the scanner emits region start,
\* then only region-text tokens that together span exactly body, then a
\* region-end token that consumes the final }, leaving the stack empty.
C4_BraceMatching ==
  (pc = "scan" /\ last.op = "reset" /\ BraceRegion(input))
    => LET run == RunTokens(scanner, input, 1, RegionKinds, Len(input) + 1)
           n == Len(run.tokens)
       IN /\ n >= 2
          /\ run.tokens[1] = [sym |-> PROMPT_START, start |-> 1, end |-> 2]
          /\ run.tokens[n] = [sym |-> PROMPT_END, start |-> Len(input),
                              end |-> Len(input) + 1]
          /\ \A k \in 2..(n - 1) : run.tokens[k].sym = PROMPT_TEXT
          /\ \A k \in 1..(n - 1) : run.tokens[k].end = run.tokens[k + 1].start
          /\ run.sc.prompt_depth_count = 0

\* the number of whole 2-byte entries in the first length bytes of a snapshot
CompleteEntries(length) == IF length >= 3 THEN (length - 3) \div 2 ELSE 0

\* C5: truncated snapshots.  For every state s and every prefix of
\* serialize(s) of length L, deserialize reads no byte at index >= L and
\* yields stack length min(N, complete entries after the header), those
\* entries equal to the entries of s, every header field whose byte is
\* present equal to that of s and every field whose byte is missing at its
\* reset value; for L = 0 or an absent buffer the result is the reset state.
C5_TruncatedSnapshot ==
  /\ (pc = "restored" /\ handed.kind = "prefix")
       => LET L == handed.length
              fresh == reset_state(last.pre)
          IN /\ last.read <= L
             /\ ~last.oob
             /\ scanner.prompt_depth_count =
                  Min(saved.prompt_depth_count, CompleteEntries(L))
             /\ \A i \in 0..(scanner.prompt_depth_count - 1) :
                  DepthAt(scanner, i) = DepthAt(saved, i)
             /\ scanner.interpolation_depth =
                  IF L >= 2 THEN saved.interpolation_depth
                  ELSE fresh.interpolation_depth
             /\ scanner.at_line_start =
                  IF L >= 3 THEN saved.at_line_start ELSE fresh.at_line_start
             /\ L = 0 => scanner = fresh
  /\ (pc = "restored" /\ handed.kind = "absent")
       => /\ scanner = reset_state(last.pre)
          /\ last.read = 0

\* a snapshot of several regions cut in the middle of an entry came back
\* with fewer regions
C5_Witness ==
  /\ pc = "restored"
  /\ handed.kind = "prefix"
  /\ handed.length = 8
  /\ saved.prompt_depth_count = 5
  /\ scanner.prompt_depth_count = 2
  /\ last.pre = Clobbered
  /\ last.read = 7

\* C6: corrupt snapshots.  For every byte buffer the host can hand back and
\* any value 0..255 in its first byte, deserialize leaves the stack length
\* in [0, 64] and writes no stack entry at an index >= 64.
C6_CountWithinCapacity ==
  pc = "restored"
    => /\ scanner.prompt_depth_count \in 0..PROMPT_STACK_CAPACITY
       /\ ~last.oob

\* C7: interpolation end has priority over region end.  In every state
\* with interpolation counter > 0 and next character }, when both kinds are
\* permitted, scan emits interpolation end, decrements the interpolation
\* counter by exactly 1 and leaves the region stack unchanged.
C7_InterpolationEndFirst ==
  (pc = "scan" /\ scanner.interpolation_depth > 0 /\ CharAt(input, pos) = RBRACE)
    => \A valid_symbols \in Masks :
         {PROMPT_INTERPOLATION_END, PROMPT_END} \subseteq valid_symbols
           => LET r == Scan(scanner, input, pos, valid_symbols)
              IN /\ r.ok
                 /\ r.sym = PROMPT_INTERPOLATION_END
                 /\ r.start = pos
                 /\ r.end = pos + 1
                 /\ r.sc.interpolation_depth = scanner.interpolation_depth - 1
                 /\ r.sc.prompt_depth_count = scanner.prompt_depth_count
                 /\ r.sc.prompt_depths = scanner.prompt_depths

\* an interpolation end was emitted at a } that could also have closed the
\* region (its counter was 1), with every kind permitted
C7_Witness ==
  /\ pc = "scan"
  /\ last.op = "scan"
  /\ last.sym = PROMPT_INTERPOLATION_END
  /\ last.pre.prompt_depth_count = 1
  /\ DepthAt(last.pre, 0) = 1
  /\ last.pre.interpolation_depth = 1
  /\ scanner.interpolation_depth = 0
  /\ scanner.prompt_depth_count = 1
  /\ Scan(last.pre, input, last.prepos, TokenType).sc = scanner

\* the text at p begins with d o and is no keyword
NotKeywordAt(inp, p) ==
  /\ CharAt(inp, p) = "d"
  /\ CharAt(inp, p + 1) = "o"
  /\ ~DoKeywordAt(inp, p)

\* C8: the keyword needs a word boundary and a following {.  A
\* nested-block-keyword token is emitted only inside an open region at a
\* line start when the characters consumed are optional indentation,
\* exactly d o, a non-identifier character and optional blanks with { next;
\* for "document {", "do_thing{" and "do" not followed by { the scan emits
\* region text.
C8_KeywordBoundary ==
  /\ (pc = "scan" /\ last.op = "scan" /\ last.sym = PROMPT_DO)
       => /\ last.pre.prompt_depth_count > 0
          /\ last.pre.at_line_start
          /\ DoKeywordAt(input, last.prepos)
          /\ last.start = last.prepos
          /\ CharAt(input, last.end) = LBRACE
  /\ (pc = "scan" /\ scanner.prompt_depth_count > 0 /\ scanner.at_line_start
        /\ NotKeywordAt(input, pos))
       => \A valid_symbols \in Masks :
            PROMPT_DO \in valid_symbols
              => Scan(scanner, input, pos, valid_symbols).sym = PROMPT_TEXT

\* C9: the statement terminator is emitted only outside regions.  A scan
\* that emits a statement-terminator token starts from a state whose region
\* stack is empty.
C9_TerminatorOutsideRegions ==
  (pc = "scan" /\ last.op = "scan" /\ last.sym = STATEMENT_TERMINATOR)
    => last.pre.prompt_depth_count = 0

\* C10: the interpolation counter tracks open spans.  After any sequence
\* of scan calls from the reset state the counter equals the number of
\* interpolation-start tokens minus the number of interpolation-end tokens
\* emitted, at every nesting depth, and an interpolation-end token is
\* emitted only when that difference is > 0.
C10_CounterTracksSpans ==
  pc = "scan"
    => /\ scanner.interpolation_depth = nStart - nEnd
       /\ (last.op = "scan" /\ last.sym = PROMPT_INTERPOLATION_END)
            => nStart - (nEnd - 1) > 0

\* the first position at or after p whose character is neither \r nor \n
RECURSIVE LineBreaksEnd(_, _)
LineBreaksEnd(inp, p) ==
  IF CharAt(inp, p) = CR \/ CharAt(inp, p) = LF THEN LineBreaksEnd(inp, p + 1) ELSE p

\* C11: terminator coalescing.  With no region open and the terminator
\* kind permitted, a scan at a run of line breaks emits one
\* statement-terminator token spanning the whole run and stopping at the
\* first character that is neither \r nor \n; when the next character is no
\* line break the terminator classifier declines without consuming
\* anything; the scanner state is unchanged in both cases.
C11_TerminatorCoalescing ==
  (pc = "scan" /\ scanner.prompt_depth_count = 0)
    => IF CharAt(input, pos) = CR \/ CharAt(input, pos) = LF
       THEN \A valid_symbols \in Masks :
              STATEMENT_TERMINATOR \in valid_symbols
                => LET r == Scan(scanner, input, pos, valid_symbols)
                   IN /\ r.ok
                      /\ r.sym = STATEMENT_TERMINATOR
                      /\ r.start = pos
                      /\ r.end = LineBreaksEnd(input, pos)
                      /\ r.sc = scanner
       ELSE /\ scan_statement_terminator(input, StartScan(scanner, pos))
                 = Fail(StartScan(scanner, pos))
            /\ LET r == Scan(scanner, input, pos, {STATEMENT_TERMINATOR})
               IN ~r.ok /\ r.cursor = pos /\ r.sc = scanner

\* the run \r\n\r\n at the start of a document came out as one token
C11_Witness ==
  /\ pc = "scan"
  /\ last.op = "scan"
  /\ last.sym = STATEMENT_TERMINATOR
  /\ last.pre.prompt_depth_count = 0
  /\ SubSeq(input, 1, 4) = <<CR, LF, CR, LF>>
  /\ last.start = 1
  /\ last.end = 5
  /\ pos = 5
  /\ scanner = last.pre

\* C12 as stated: reset yields the all-zero state.  After reset, for any
\* prior state, the stack length is 0, the interpolation counter is 0 and
\* the line-start flag is 0 (false): the state that create produces.
C12_ResetAllZero ==
  (pc = "scan" /\ last.op = "reset")
    => /\ scanner.prompt_depth_count = 0
       /\ scanner.interpolation_depth = 0
       /\ scanner.at_line_start = FALSE
       /\ SameState(scanner, create)

\* C12 as amended: after reset, for any prior state, the stack length is 0,
\* the interpolation counter is 0 and the line-start flag is 1 (true); the
\* state differs from the one create produces in the line-start flag only.
C12_ResetState ==
  (pc = "scan" /\ last.op = "reset")
    => /\ scanner.prompt_depth_count = 0
       /\ scanner.interpolation_depth = 0
       /\ scanner.at_line_start = TRUE
       /\ create.at_line_start = FALSE
       /\ SameState(scanner, [create EXCEPT !.at_line_start = TRUE])

\* a scanner with an open region and an open interpolation span was reset
C12_Witness ==
  /\ pc = "scan"
  /\ last.op = "reset"
  /\ last.pre.prompt_depth_count = 1
  /\ last.pre.interpolation_depth > 0
  /\ ~last.pre.at_line_start
  /\ scanner.prompt_depth_count = 0

\* the state of a second instance (its payload in any state) that is given
\* the whole snapshot of sc
Resume(sc, payload, garbage) ==
  LET bytes == tree_sitter_patchwork_external_scanner_serialize(sc, FALSE)
  IN tree_sitter_patchwork_external_scanner_deserialize(
       payload,
       [null |-> FALSE, bytes |-> bytes, length |-> Len(bytes), kind |-> "prefix"],
       garbage).sc

\* C13: incremental resume equivalence.  For every state s reached by
\* scanning, a second instance initialised with deserialize(serialize(s))
\* emits, for every set of permitted kinds, the same token (kind and
\* extent) as the original instance continuing from s and is left in a
\* state with the same snapshot, so that the two go on through the same
\* tokens and the same serialized states.  (Two instances in the same state
\* scan alike: the scans are compared when the resumed state differs.)
C13_ResumeEquivalence ==
  pc = "scan"
    => \A twin \in {Resume(scanner, payload, garbage) :
                      payload \in {create, Clobbered}, garbage \in Garbage} :
         /\ tree_sitter_patchwork_external_scanner_serialize(twin, FALSE)
              = tree_sitter_patchwork_external_scanner_serialize(scanner, FALSE)
         /\ \/ twin = scanner
            \/ \A valid_symbols \in Masks :
                 \A a \in {Scan(scanner, input, pos, valid_symbols)},
                    b \in {Scan(twin, input, pos, valid_symbols)} :
                    /\ a.ok = b.ok
                    /\ a.sym = b.sym
                    /\ a.start = b.start
                    /\ a.end = b.end
                    /\ tree_sitter_patchwork_external_scanner_serialize(a.sc, FALSE)
                         = tree_sitter_patchwork_external_scanner_serialize(b.sc, FALSE)

\* a scanner inside a region with an unmatched brace: an instance resumed
\* from the snapshot taken before the last text token emits that token too
C13_Witness ==
  /\ pc = "scan"
  /\ last.op = "scan"
  /\ last.sym = PROMPT_TEXT
  /\ last.pre.prompt_depth_count = 1
  /\ last.pre.at_line_start
  /\ scanner.prompt_depth_count = 1
  /\ DepthAt(scanner, 0) > 1
  /\ Resume(last.pre, Clobbered, 255) = last.pre
  /\ Scan(Resume(last.pre, Clobbered, 255), input, last.prepos, {PROMPT_TEXT}).sc
       = scanner

\* C14: the emitted kind respects the mask.  For every state, input and
\* set of permitted kinds, a token that scan returns has a permitted kind,
\* and scan declines when no kind is permitted; in particular no
\* region-text token is emitted when the keyword kind is permitted and
\* region text is not.
C14_KindRespectsMask ==
  pc = "scan"
    => \A valid_symbols \in Masks :
         \A r \in {Scan(scanner, input, pos, valid_symbols)} :
            /\ r.ok => r.sym \in valid_symbols
            /\ valid_symbols = {} => ~r.ok

\* C15: region end only at counter 1.  Every scan that emits a region-end
\* token starts from a non-empty stack whose top counter is exactly 1, with
\* } as the next character; it pops exactly one region, consumes exactly
\* that } and leaves the interpolation counter and the remaining entries
\* unchanged; the stack length decreases in no other scan.
C15_RegionEndAtCounterOne ==
  (pc = "scan" /\ last.op = "scan")
    => IF last.sym = PROMPT_END
       THEN /\ last.pre.prompt_depth_count > 0
            /\ DepthAt(last.pre, last.pre.prompt_depth_count - 1) = 1
            /\ CharAt(input, last.prepos) = RBRACE
            /\ last.start = last.prepos
            /\ last.end = last.prepos + 1
            /\ scanner.prompt_depth_count = last.pre.prompt_depth_count - 1
            /\ \A i \in 0..(scanner.prompt_depth_count - 1) :
                 DepthAt(scanner, i) = DepthAt(last.pre, i)
            /\ scanner.interpolation_depth = last.pre.interpolation_depth
       ELSE scanner.prompt_depth_count >= last.pre.prompt_depth_count

\* a region was closed while an interpolation span was still open
C15_Witness ==
  /\ pc = "scan"
  /\ last.op = "scan"
  /\ last.sym = PROMPT_END
  /\ last.pre.prompt_depth_count = 1
  /\ last.pre.interpolation_depth = 1
  /\ scanner.prompt_depth_count = 0
  /\ scanner.interpolation_depth = 1

\* the first position at or after p that holds a line break or the end of
\* the input
RECURSIVE LineEnd(_, _)
LineEnd(inp, p) ==
  IF CharAt(inp, p) \in {CR, LF, EOF} THEN p ELSE LineEnd(inp, p + 1)

\* inside an open region at a line start, the cursor is at one or more
\* spaces or tabs followed by a character other than d
IndentedNonKeyword ==
  /\ pc = "scan"
  /\ scanner.prompt_depth_count > 0
  /\ scanner.at_line_start
  /\ CharAt(input, pos) \in {SP, TAB}
  /\ CharAt(input, SkipIndent(input, pos)) # "d"

\* C16 as stated: indented non-keyword line.  Inside an open region at a
\* line start, with the cursor at indentation followed by a character other
\* than d, the scan (keyword kind permitted) emits one region-text token
\* that spans the indentation and the whole rest of the physical line.
C16_IndentedLineAsText ==
  IndentedNonKeyword
    => \A valid_symbols \in Masks :
         PROMPT_DO \in valid_symbols
           => \A r \in {Scan(scanner, input, pos, valid_symbols)} :
                /\ r.sym = PROMPT_TEXT
                /\ r.start = pos
                /\ r.end >= LineEnd(input, pos)

\* C16 as amended: in that situation the scan (keyword kind permitted)
\* emits one region-text token that spans exactly the indentation; the rest
\* of the line is left to later scans and the scanner state, line-start
\* flag included, is unchanged.
C16_IndentationAsText ==
  IndentedNonKeyword
    => \A valid_symbols \in Masks :
         PROMPT_DO \in valid_symbols
           => \A r \in {Scan(scanner, input, pos, valid_symbols)} :
                /\ r.ok
                /\ r.sym = PROMPT_TEXT
                /\ r.start = pos
                /\ r.end = SkipIndent(input, pos)
                /\ r.sc = scanner

\* the indentation before a word that is no keyword came out as a text
\* token of its own, the word left for the next scan
C16_Witness ==
  /\ pc = "scan"
  /\ last.op = "scan"
  /\ last.sym = PROMPT_TEXT
  /\ last.pre.prompt_depth_count > 0
  /\ last.pre.at_line_start
  /\ CharAt(input, last.prepos) = SP
  /\ last.start = last.prepos
  /\ last.end = SkipIndent(input, last.prepos)
  /\ CharAt(input, last.end) = "x"
  /\ pos = last.end
  /\ scanner = last.pre

\* C17: state invariant under scanning.  In every state reached from reset
\* by scan calls the stack length is in [0, 64] and every live entry, a
\* 16-bit brace-nesting counter, is >= 1.
C17_StackInvariant ==
  pc = "scan"
    => /\ scanner.prompt_depth_count \in 0..PROMPT_STACK_CAPACITY
       /\ \A i \in 0..(scanner.prompt_depth_count - 1) : DepthAt(scanner, i) >= 1

\* C18: progress and termination.  Every scan call ends with the cursor
\* inside the input or at its end, and every scan that returns a token has
\* consumed at least one character into it: the token is not empty and the
\* host cursor moves forward, so the distance to the end of the input
\* shrinks with every token and repeated scans reach the end of the input
\* or a decline after finitely many tokens.  A declined scan leaves the
\* host cursor where it was.
C18_TokensMakeProgress ==
  (pc = "scan" /\ last.op = "scan")
    => IF last.sym # NONE
       THEN /\ last.prepos <= last.start
            /\ last.start < last.end
            /\ last.end <= Len(input) + 1
            /\ pos = last.end
            /\ Len(input) + 1 - pos < Len(input) + 1 - last.prepos
       ELSE pos = last.prepos

\* scanning reached the end of a document with a text token
C18_Witness ==
  /\ pc = "scan"
  /\ last.op = "scan"
  /\ last.sym = PROMPT_TEXT
  /\ last.start < last.end
  /\ Len(input) >= 3
  /\ pos = Len(input) + 1

\* C19: at most one region is ever open.  In every state reached from
\* create or reset by scan calls the stack length is 0 or 1: the only push
\* is in the region-start classifier, which requires an empty stack.
C19_AtMostOneRegion ==
  pc = "scan"
    => /\ scanner.prompt_depth_count \in {0, 1}
       /\ Len(scanner.prompt_depths) = scanner.prompt_depth_count

\* a scan at a { inside an open region, region start the only kind
\* permitted, declined and left the one region open
C19_Witness ==
  /\ pc = "scan"
  /\ last.op = "scan"
  /\ last.sym = NONE
  /\ last.pre.prompt_depth_count = 1
  /\ CharAt(input, last.prepos) = LBRACE
  /\ ~Scan(last.pre, input, last.prepos, {PROMPT_START}).ok
  /\ scanner.prompt_depth_count = 1

\* C20: a declined scan changes nothing.  For every state, input and set
\* of permitted kinds, when scan returns no token the stack length, every
\* stack entry, the interpolation counter and the line-start flag are what
\* they were before the call, also when a failing classifier advanced the
\* cursor.
C20_DeclineChangesNothing ==
  (pc = "scan" /\ last.op = "scan" /\ last.sym = NONE)
    => /\ scanner.prompt_depth_count = last.pre.prompt_depth_count
       /\ scanner.prompt_depths = last.pre.prompt_depths
       /\ scanner.interpolation_depth = last.pre.interpolation_depth
       /\ scanner.at_line_start = last.pre.at_line_start

\* a scan inside a region declined after the interpolation-start
\* classifier had advanced past a $
C20_Witness ==
  /\ pc = "scan"
  /\ last.op = "scan"
  /\ last.sym = NONE
  /\ last.pre.prompt_depth_count = 1
  /\ CharAt(input, last.prepos) = DOLLAR
  /\ CharAt(input, last.prepos + 1) # LBRACE
  /\ \E r \in {Scan(last.pre, input, last.prepos, {PROMPT_INTERPOLATION_START})} :
        ~r.ok /\ r.cursor = last.prepos + 1
  /\ scanner = last.pre
  /\ pos = last.prepos

=============================================================================
